---- MODULE Spec2Model ----
(***************************************************************************)
(* Model of backend/main.py of garak-gui-ollama: the WebSocket scan        *)
(* session (websocket_scan), the scan job runner (GarakRunner.run_scan),   *)
(* the identifier normalizer (normalize_plugin_name), the result parser    *)
(* (GarakRunner.parse_results) and the scan record store (load_scans,      *)
(* save_scan, SCANS_FILE).                                                 *)
(*                                                                         *)
(* Python strings the code slices (plugin names) are sequences of          *)
(* one-character strings.  An Optional value is a sequence of length 0     *)
(* (None) or 1.                                                            *)
(***************************************************************************)
EXTENDS Integers, Sequences, FiniteSets, TLC

(***************************************************************************)
(* Bounds of the model.                                                    *)
(***************************************************************************)
\* number of WebSocket sessions (connections to /ws/scan)
NumSess == 1
\* number of store faults the environment may inject under SpecFaults (a
\* corrupted SCANS_FILE, a failed rewrite of it)
MaxFaults == 1
\* number of pieces a plugin name given to the normalizer is made of
MaxParts == 3
\* number of lines of a report file given to the parser
MaxLines == 3
\* number of probes, and of detectors, of a request whose argument vector
\* is built
MaxPlugins == 2

(***************************************************************************)
(* Strings.                                                                *)
(***************************************************************************)
GARAK == <<"g", "a", "r", "a", "k">>
DOT == <<".">>
PROBES == <<"p", "r", "o", "b", "e", "s">>
DETECTORS == <<"d", "e", "t", "e", "c", "t", "o", "r", "s">>
DAN == <<"d", "a", "n">>
XNAME == <<"X">>

\* the two categories run_scan normalizes for (main.py:199, 205)
Categories == {PROBES, DETECTORS}

\* str.startswith
StartsWith(name, prefix) ==
    /\ Len(name) >= Len(prefix)
    /\ SubSeq(name, 1, Len(prefix)) = prefix

\* name[n:]
DropFirst(name, n) == SubSeq(name, n + 1, Len(name))

\* f"garak.{category}."
full_prefix(category) == GARAK \o DOT \o category \o DOT

\* f"{category}."
short_prefix(category) == category \o DOT

\* normalize_plugin_name without its first test: the fully qualified prefix
\* is never stripped
normalize_short_only(name, category) ==
    IF StartsWith(name, short_prefix(category))
    THEN DropFirst(name, Len(short_prefix(category)))
    ELSE name

normalize_plugin_name(name, category) ==
    IF StartsWith(name, full_prefix(category))
    THEN DropFirst(name, Len(full_prefix(category)))
    ELSE IF StartsWith(name, short_prefix(category))
    THEN DropFirst(name, Len(short_prefix(category)))
    ELSE name

(***************************************************************************)
(* The result parser, GarakRunner.parse_results.                           *)
(*                                                                         *)
(* An output directory is the sequence of its entries in the order glob    *)
(* yields them; an entry is [name, readable, lines], lines being the text  *)
(* lines of the file.                                                      *)
(***************************************************************************)
GoodLine1 == "{\"entry_type\": \"attempt\", \"seq\": 1}"
GoodLine2 == "{\"entry_type\": \"attempt\", \"seq\": 2}"
BadLine == "{\"entry_type\": \"attempt\", \"seq\""
BlankLine == "   "
LineTexts == {"", BlankLine, GoodLine1, GoodLine2, BadLine}

\* str.strip on the line texts of the model
Strip(line) == IF line \in {"", BlankLine} THEN "" ELSE line

\* json.loads on the line texts of the model: the parsed object, or the
\* JSONDecodeError it raises (ok = FALSE)
json_loads(line) ==
    CASE line = GoodLine1 -> [ok |-> TRUE, data |-> [entry_type |-> "attempt", seq |-> 1]]
      [] line = GoodLine2 -> [ok |-> TRUE, data |-> [entry_type |-> "attempt", seq |-> 2]]
      [] OTHER -> [ok |-> FALSE, data |-> [entry_type |-> "", seq |-> 0]]

\* fnmatch of the file names of the model against "report*.jsonl"
MatchesReportJsonl(name) == name \in {"report.report.jsonl", "report.hitlog.jsonl"}

\* fnmatch of the file names of the model against "report*.html"
MatchesReportHtml(name) == name \in {"report.report.html", "report.html"}

\* output_dir.glob(pattern): the matching entries, in directory order
RECURSIVE Glob(_, _)
Glob(dir, jsonl) ==
    IF dir = <<>> THEN <<>>
    ELSE LET hit == IF jsonl THEN MatchesReportJsonl(Head(dir).name)
                    ELSE MatchesReportHtml(Head(dir).name)
         IN  (IF hit THEN <<Head(dir)>> ELSE <<>>) \o Glob(Tail(dir), jsonl)

\* main.py:295-298 inside the try of 293: the loop over the lines of one
\* file; the exception json.loads raises leaves the loop (and the file) for
\* the except of 299, with the details appended so far
RECURSIVE ReadLines(_, _, _)
ReadLines(lines, i, details) ==
    IF i > Len(lines) THEN details
    ELSE IF Strip(lines[i]) = "" THEN ReadLines(lines, i + 1, details)
    ELSE IF json_loads(lines[i]).ok
    THEN ReadLines(lines, i + 1, Append(details, json_loads(lines[i]).data))
    ELSE details

\* main.py:292-300: the loop over the report files; open() of an
\* unreadable file raises and the file is skipped
RECURSIVE ParseFiles(_, _)
ParseFiles(files, details) ==
    IF files = <<>> THEN details
    ELSE ParseFiles(Tail(files),
                    IF Head(files).readable
                    THEN ReadLines(Head(files).lines, 1, details)
                    ELSE details)

\* f"/api/scans/{scan_id}/report"
ReportPath(scan_id) == <<"/api/scans/", scan_id, "/report">>

\* parse_results without the test of 304: the report path is set whether
\* or not a rendered report was found
parse_results_path_always(output_dir, scan_id) ==
    LET html_files == Glob(output_dir, FALSE)
    IN  [summary |-> <<>>,
         details |-> ParseFiles(Glob(output_dir, TRUE), <<>>),
         report_html |-> IF html_files # <<>> THEN <<html_files[1].name>> ELSE <<>>,
         report_path |-> <<ReportPath(scan_id)>>]

parse_results(output_dir, scan_id) ==
    LET html_files == Glob(output_dir, FALSE)
    IN  [summary |-> <<>>,
         details |-> ParseFiles(Glob(output_dir, TRUE), <<>>),
         report_html |-> IF html_files # <<>> THEN <<html_files[1].name>> ELSE <<>>,
         report_path |-> IF html_files # <<>> THEN <<ReportPath(scan_id)>> ELSE <<>>]

(***************************************************************************)
(* The state.                                                              *)
(***************************************************************************)
VARIABLES
    pc,                 \* pc[s]: where session s (one call of websocket_scan) stands
    chan,               \* chan[s]: "open" while the client of s is connected
    events,             \* events[s]: the JSON objects sent to the client of s, in order
    data,               \* data[s]: the scan request received (websocket_scan's data)
    exc,                \* exc[s]: the exception in flight in s, "" when none
    success,            \* success[s]: run_garak's return value, <<>> before it returns
    outdir,             \* outdir[s]: the entries of DATA_DIR/<scan_id> the engine wrote
    args,               \* args[s]: the argument vector run_scan builds for cli.main
    results,            \* results[s]: run_scan's local of that name (<<>> is None)
    scan_results,       \* scan_results[s]: websocket_scan's local (<<>> is None)
    active_connections, \* the module-level list of open WebSockets
    file,               \* SCANS_FILE: [readable, scans]
    faults,             \* store faults the environment may still inject
    rs,                 \* rs[s]: the call of run_scan in s: "none", "running",
                        \* "returned" or "raised"
    cut,                \* cut[s]: the client of s left while the engine was in flight
    call,               \* the function call under test (function specifications)
    ret                 \* the values the function under test returned, in order

vars == <<pc, chan, events, data, exc, success, outdir, args, results,
          scan_results, active_connections, file, faults, rs, cut, call, ret>>

sessVars == <<pc, chan, events, data, exc, success, outdir, args, results,
              scan_results, active_connections, file, faults, rs, cut>>

\* the sessions: one call of websocket_scan each
Sess == DOMAIN pc

\* str(uuid.uuid4()) of session s: a string unique to the session
ScanId(s) == ToString(s)

(***************************************************************************)
(* Scan requests: the JSON object the client sends.  An absent key is      *)
(* <<>>, a present one <<value>>.                                          *)
(***************************************************************************)
ProbeNames == <<PROBES \o DOT \o DAN \o DOT \o XNAME,
                GARAK \o DOT \o PROBES \o DOT \o DAN \o DOT \o XNAME,
                DAN \o DOT \o XNAME>>

DetectorNames == <<DETECTORS \o DOT \o DAN \o DOT \o XNAME>>

Requests ==
    { [model_name |-> <<"llama3">>, probes |-> <<ProbeNames>>,
       detectors |-> <<>>, description |-> <<>>],
      [model_name |-> <<"llama3">>, probes |-> <<ProbeNames>>,
       detectors |-> <<DetectorNames>>, description |-> <<"nightly">>],
      [model_name |-> <<>>, probes |-> <<ProbeNames>>,
       detectors |-> <<>>, description |-> <<>>],
      [model_name |-> <<"llama3">>, probes |-> <<>>,
       detectors |-> <<>>, description |-> <<>>] }

NoRequest == [model_name |-> <<>>, probes |-> <<>>, detectors |-> <<>>,
              description |-> <<>>]

\* what the engine can leave in the output directory of a scan
ScanOutDirs ==
    { <<>>,
      << [name |-> "report.report.jsonl", readable |-> TRUE,
          lines |-> <<GoodLine1, GoodLine2>>],
         [name |-> "report.report.html", readable |-> TRUE, lines |-> <<>>] >> }

(***************************************************************************)
(* The events run_scan and websocket_scan send.                            *)
(***************************************************************************)
StatusEvent(message, progress) ==
    [type |-> "status", message |-> message, progress |-> progress]

CompleteEvent(scan_id, res) ==
    [type |-> "complete", scan_id |-> scan_id, results |-> res]

ErrorEvent(message) == [type |-> "error", message |-> message]

ScanFailedMessage == <<"Scan failed. Check logs for details.">>

ScanErrorMessage(e) == <<"Scan error: ", e>>

(***************************************************************************)
(* The scan record store.                                                  *)
(***************************************************************************)
GoodFile(scans) == [readable |-> TRUE, scans |-> scans]

\* a missing, truncated or otherwise unparsable SCANS_FILE
CorruptFile == [readable |-> FALSE, scans |-> <<>>]

\* load_scans without its try: what the file holds is returned whether or
\* not the read succeeded
load_scans_unguarded(f) == f.scans

load_scans(f) == IF f.readable THEN f.scans ELSE <<>>

\* main.py:363-364 and 485-486: open(SCANS_FILE, 'w') and json.dump.  The
\* rewrite succeeds, or (a store fault) fails with OSError, leaving the
\* file as it was (open failed) or truncated (the dump failed)
WriteOutcomes(scans) ==
    {[ok |-> TRUE, file |-> GoodFile(scans)]}
    \cup (IF faults > 0
          THEN {[ok |-> FALSE, file |-> file], [ok |-> FALSE, file |-> CorruptFile]}
          ELSE {})

\* the record websocket_scan builds at 455-463 (the timestamp is left out)
ScanRecord(s) ==
    [id |-> ScanId(s),
     model_name |-> data[s].model_name[1],
     probes |-> data[s].probes[1],
     detectors |-> data[s].detectors,
     description |-> data[s].description,
     status |-> "running",
     results |-> <<>>]

\* main.py:478-484: the loop that marks the record of scan_id completed
MarkCompleted(scans, scan_id, res) ==
    LET hits == {i \in 1 .. Len(scans) : scans[i].id = scan_id}
        first == CHOOSE i \in hits : \A j \in hits : i <= j
    IN  IF hits = {} THEN scans
        ELSE [scans EXCEPT ![first] =
                 [@ EXCEPT !.status = "completed",
                           !.results = IF res # <<>> THEN res ELSE @]]

(***************************************************************************)
(* run_scan's argument vector, main.py:196-223.  A literal argument is a   *)
(* one-element sequence, a plugin name its sequence of characters.         *)
(***************************************************************************)
RECURSIVE PluginArgs(_, _, _)
PluginArgs(flag, names, category) ==
    IF names = <<>> THEN <<>>
    ELSE <<<<flag>>, normalize_plugin_name(Head(names), category)>>
         \o PluginArgs(flag, Tail(names), category)

\* str(output_dir.resolve() / "report")
ReportPrefix(scan_id) == <<"/backend/data/", scan_id, "/report">>

\* the argument vector with line 205 copied from line 199 unchanged: the
\* detector names are normalized for the category "probes"
BuildArgsCopied(model_name, probes, detectors, scan_id) ==
    <<<<"--model_type">>, <<"ollama">>, <<"--model_name">>, <<model_name>>>>
    \o PluginArgs("--probes", probes, PROBES)
    \o (IF detectors # <<>> /\ detectors[1] # <<>>
        THEN PluginArgs("--detectors", detectors[1], PROBES)
        ELSE <<>>)
    \o <<<<"--report_prefix">>, ReportPrefix(scan_id)>>

\* detectors is <<>> (None) or <<list>>; "if detectors:" is false for both
\* None and the empty list
BuildArgs(model_name, probes, detectors, scan_id) ==
    <<<<"--model_type">>, <<"ollama">>, <<"--model_name">>, <<model_name>>>>
    \o PluginArgs("--probes", probes, PROBES)
    \o (IF detectors # <<>> /\ detectors[1] # <<>>
        THEN PluginArgs("--detectors", detectors[1], DETECTORS)
        ELSE <<>>)
    \o <<<<"--report_prefix">>, ReportPrefix(scan_id)>>

(***************************************************************************)
(* Exceptions: the class and str(e).                                       *)
(***************************************************************************)
NoExc == [cls |-> "", str |-> ""]

\* what send_json and receive_json raise on a channel the client has left
Disconnected == [cls |-> "WebSocketDisconnect", str |-> ""]

KeyError(key) == [cls |-> "KeyError", str |-> key]

\* the rewrite of SCANS_FILE failed
StoreError == [cls |-> "OSError", str |-> "scans.json"]

\* "import garak", a plugin name that is no string, output_dir.mkdir
PrepareError == [cls |-> "Exception", str |-> "prepare"]

(***************************************************************************)
(* Init: the process has started (main.py:21-27, 347); no session has      *)
(* been accepted.                                                          *)
(***************************************************************************)
\* n sessions, none accepted yet
SessLocalsOf(n) ==
    /\ pc = [s \in 1 .. n |-> "accept"]
    /\ chan = [s \in 1 .. n |-> "open"]
    /\ events = [s \in 1 .. n |-> <<>>]
    /\ data = [s \in 1 .. n |-> NoRequest]
    /\ exc = [s \in 1 .. n |-> NoExc]
    /\ success = [s \in 1 .. n |-> <<>>]
    /\ outdir = [s \in 1 .. n |-> <<>>]
    /\ args = [s \in 1 .. n |-> <<>>]
    /\ results = [s \in 1 .. n |-> <<>>]
    /\ scan_results = [s \in 1 .. n |-> <<>>]
    /\ active_connections = <<>>
    /\ rs = [s \in 1 .. n |-> "none"]
    /\ cut = [s \in 1 .. n |-> FALSE]

SessLocals == SessLocalsOf(NumSess)

\* SCANS_FILE starts as an empty collection
SessInit ==
    /\ SessLocals
    /\ file = GoodFile(<<>>)

NoCall == [fn |-> "none"]

\* the store works: no fault is injected
Init ==
    /\ SessInit
    /\ faults = 0
    /\ call = NoCall
    /\ ret = <<>>

\* the store may fail MaxFaults times
InitFaults ==
    /\ SessInit
    /\ faults = MaxFaults
    /\ call = NoCall
    /\ ret = <<>>

(***************************************************************************)
(* websocket_scan, up to the call of run_scan.                             *)
(***************************************************************************)
\* accept with the engine called on the event loop itself (cli.main(args)
\* in place of run_in_executor, main.py:249): while an engine invocation
\* runs, the loop runs nothing else and no connection is accepted
AcceptWhenIdle(s) ==
    /\ pc[s] = "accept"
    /\ \A t \in Sess : pc[t] # "rs_engine"
    /\ pc' = [pc EXCEPT ![s] = "receive"]
    /\ active_connections' = Append(active_connections, s)
    /\ UNCHANGED <<chan, events, data, exc, success, outdir, args, results,
                   scan_results, file, faults, rs, cut, call, ret>>

\* main.py:443-444
Accept(s) ==
    /\ pc[s] = "accept"
    /\ pc' = [pc EXCEPT ![s] = "receive"]
    /\ active_connections' = Append(active_connections, s)
    /\ UNCHANGED <<chan, events, data, exc, success, outdir, args, results,
                   scan_results, file, faults, rs, cut, call, ret>>

\* main.py:448
Receive(s) ==
    /\ pc[s] = "receive"
    /\ \E d \in Requests :
          IF chan[s] = "open"
          THEN /\ data' = [data EXCEPT ![s] = d]
               /\ pc' = [pc EXCEPT ![s] = "create"]
               /\ UNCHANGED exc
          ELSE /\ exc' = [exc EXCEPT ![s] = Disconnected]
               /\ pc' = [pc EXCEPT ![s] = "handler"]
               /\ UNCHANGED data
    /\ UNCHANGED <<chan, events, success, outdir, args, results, scan_results,
                   active_connections, file, faults, rs, cut, call, ret>>

\* the record built with data.get for every field: a request that lacks a
\* required field has its record saved, and the KeyError is raised only by
\* the arguments of the call of run_scan (main.py:469-470)
CreateRecordLenient(s) ==
    /\ pc[s] = "create"
    /\ IF data[s].model_name = <<>> \/ data[s].probes = <<>>
       THEN /\ file' = GoodFile(Append(load_scans(file),
                           [id |-> ScanId(s), model_name |-> data[s].model_name,
                            probes |-> data[s].probes, detectors |-> data[s].detectors,
                            description |-> data[s].description, status |-> "running",
                            results |-> <<>>]))
            /\ exc' = [exc EXCEPT ![s] =
                          IF data[s].model_name = <<>>
                          THEN KeyError("'model_name'") ELSE KeyError("'probes'")]
            /\ pc' = [pc EXCEPT ![s] = "handler"]
            /\ UNCHANGED <<faults, rs>>
       ELSE /\ file' = GoodFile(Append(load_scans(file), ScanRecord(s)))
            /\ pc' = [pc EXCEPT ![s] = "rs_start"]
            /\ rs' = [rs EXCEPT ![s] = "running"]
            /\ UNCHANGED <<exc, faults>>
    /\ UNCHANGED <<chan, events, data, success, outdir, args, results,
                   scan_results, active_connections, cut, call, ret>>

\* main.py:454-468: the record is built, save_scan (359-364) appends it and
\* run_scan is called
CreateRecord(s) ==
    /\ pc[s] = "create"
    /\ IF data[s].model_name = <<>> \/ data[s].probes = <<>>
       THEN /\ exc' = [exc EXCEPT ![s] =
                          IF data[s].model_name = <<>>
                          THEN KeyError("'model_name'") ELSE KeyError("'probes'")]
            /\ pc' = [pc EXCEPT ![s] = "handler"]
            /\ UNCHANGED <<file, faults, rs>>
       ELSE \E w \in WriteOutcomes(Append(load_scans(file), ScanRecord(s))) :
               /\ file' = w.file
               /\ IF w.ok
                  THEN /\ pc' = [pc EXCEPT ![s] = "rs_start"]
                       /\ rs' = [rs EXCEPT ![s] = "running"]
                       /\ UNCHANGED <<exc, faults>>
                  ELSE /\ pc' = [pc EXCEPT ![s] = "handler"]
                       /\ exc' = [exc EXCEPT ![s] = StoreError]
                       /\ faults' = faults - 1
                       /\ UNCHANGED rs
    /\ UNCHANGED <<chan, events, data, success, outdir, args, results,
                   scan_results, active_connections, cut, call, ret>>

(***************************************************************************)
(* GarakRunner.run_scan.                                                   *)
(***************************************************************************)
\* await websocket.send_json(ev) inside run_scan's try: sent when the
\* channel is open (then run_scan goes on at `next`); raises otherwise,
\* which takes run_scan to its except clause (main.py:272)
SendInTry(s, ev, next) ==
    /\ IF chan[s] = "open"
       THEN /\ events' = [events EXCEPT ![s] = Append(@, ev)]
            /\ pc' = [pc EXCEPT ![s] = next]
            /\ UNCHANGED exc
       ELSE /\ exc' = [exc EXCEPT ![s] = Disconnected]
            /\ pc' = [pc EXCEPT ![s] = "rs_except"]
            /\ UNCHANGED events
    /\ UNCHANGED <<chan, data, success, outdir, args, results, scan_results,
                   active_connections, file, faults, rs, cut, call, ret>>

\* main.py:165-169
SendStart(s) ==
    /\ pc[s] = "rs_start"
    /\ SendInTry(s, StatusEvent(<<"Starting scan on model: ", data[s].model_name[1]>>, 0),
                 "rs_prepare")

\* main.py:171-223: import garak, the plugin names normalized, the output
\* directory made, the argument vector built; any of these can raise
Prepare(s) ==
    /\ pc[s] = "rs_prepare"
    /\ \E raises \in BOOLEAN :
          IF raises
          THEN /\ exc' = [exc EXCEPT ![s] = PrepareError]
               /\ pc' = [pc EXCEPT ![s] = "rs_except"]
               /\ UNCHANGED args
          ELSE /\ args' = [args EXCEPT ![s] =
                              BuildArgs(data[s].model_name[1], data[s].probes[1],
                                        data[s].detectors, ScanId(s))]
               /\ pc' = [pc EXCEPT ![s] = "rs_init"]
               /\ UNCHANGED exc
    /\ UNCHANGED <<chan, events, data, success, outdir, results, scan_results,
                   active_connections, file, faults, rs, cut, call, ret>>

\* run_scan without the send of 225-229: the "initializing" event is skipped
SendInitSkipped(s) ==
    /\ pc[s] = "rs_init"
    /\ pc' = [pc EXCEPT ![s] = "rs_running"]
    /\ UNCHANGED <<chan, events, data, exc, success, outdir, args, results,
                   scan_results, active_connections, file, faults, rs, cut, call, ret>>

\* main.py:225-229
SendInit(s) ==
    /\ pc[s] = "rs_init"
    /\ SendInTry(s, StatusEvent(<<"Initializing Garak...">>, 10), "rs_running")

\* main.py:242-249: the "running" event, then run_garak is handed to the
\* executor and run_scan awaits it (pc "rs_engine": the engine is in flight)
SendRunning(s) ==
    /\ pc[s] = "rs_running"
    /\ SendInTry(s, StatusEvent(<<"Running scan...">>, 20), "rs_engine")

\* main.py:234-240, 249: cli.main returns (success, the output directory
\* written) or raises (failure); run_scan resumes with the boolean
EngineReturn(s) ==
    /\ pc[s] = "rs_engine"
    /\ \/ \E d \in ScanOutDirs :
             /\ success' = [success EXCEPT ![s] = <<TRUE>>]
             /\ outdir' = [outdir EXCEPT ![s] = d]
             /\ pc' = [pc EXCEPT ![s] = "rs_success"]
       \/ /\ success' = [success EXCEPT ![s] = <<FALSE>>]
          /\ pc' = [pc EXCEPT ![s] = "rs_failed"]
          /\ UNCHANGED outdir
    /\ UNCHANGED <<chan, events, data, exc, args, results, scan_results,
                   active_connections, file, faults, rs, cut, call, ret>>

\* the send of 252-256 with the progress value of 225-229
SendDoneLow(s) ==
    /\ pc[s] = "rs_success"
    /\ SendInTry(s, StatusEvent(<<"Scan completed successfully!">>, 10), "rs_parse")

\* main.py:252-256
SendDone(s) ==
    /\ pc[s] = "rs_success"
    /\ SendInTry(s, StatusEvent(<<"Scan completed successfully!">>, 100), "rs_parse")

\* main.py:259
Parse(s) ==
    /\ pc[s] = "rs_parse"
    /\ results' = [results EXCEPT ![s] = <<parse_results(outdir[s], ScanId(s))>>]
    /\ pc' = [pc EXCEPT ![s] = "rs_complete"]
    /\ UNCHANGED <<chan, events, data, exc, success, outdir, args, scan_results,
                   active_connections, file, faults, rs, cut, call, ret>>

\* main.py:261-265
SendComplete(s) ==
    /\ pc[s] = "rs_complete"
    /\ SendInTry(s, CompleteEvent(ScanId(s), results[s][1]), "rs_return")

\* main.py:266-270
SendFailed(s) ==
    /\ pc[s] = "rs_failed"
    /\ SendInTry(s, ErrorEvent(ScanFailedMessage), "rs_return")

\* an except clause that only logs: no error event is sent
ExceptHandlerSilent(s) ==
    /\ pc[s] = "rs_except"
    /\ exc' = [exc EXCEPT ![s] = NoExc]
    /\ pc' = [pc EXCEPT ![s] = "rs_return"]
    /\ UNCHANGED <<chan, events, data, success, outdir, args, results, scan_results,
                   active_connections, file, faults, rs, cut, call, ret>>

\* an except clause whose send is guarded: the failure of the send is
\* swallowed and run_scan returns what `results` holds
ExceptHandlerGuarded(s) ==
    /\ pc[s] = "rs_except"
    /\ events' = [events EXCEPT ![s] =
                     IF chan[s] = "open"
                     THEN Append(@, ErrorEvent(ScanErrorMessage(exc[s].str)))
                     ELSE @]
    /\ exc' = [exc EXCEPT ![s] = NoExc]
    /\ pc' = [pc EXCEPT ![s] = "rs_return"]
    /\ UNCHANGED <<chan, data, success, outdir, args, results, scan_results,
                   active_connections, file, faults, rs, cut, call, ret>>

\* main.py:272-277: the except clause sends an error event; that send is
\* not guarded, so its failure leaves run_scan as an exception
ExceptHandler(s) ==
    /\ pc[s] = "rs_except"
    /\ IF chan[s] = "open"
       THEN /\ events' = [events EXCEPT ![s] =
                             Append(@, ErrorEvent(ScanErrorMessage(exc[s].str)))]
            /\ exc' = [exc EXCEPT ![s] = NoExc]
            /\ pc' = [pc EXCEPT ![s] = "rs_return"]
            /\ UNCHANGED rs
       ELSE /\ exc' = [exc EXCEPT ![s] = Disconnected]
            /\ pc' = [pc EXCEPT ![s] = "handler"]
            /\ rs' = [rs EXCEPT ![s] = "raised"]
            /\ UNCHANGED events
    /\ UNCHANGED <<chan, data, success, outdir, args, results, scan_results,
                   active_connections, file, faults, cut, call, ret>>

\* main.py:279 and 468: run_scan returns results to websocket_scan
Return(s) ==
    /\ pc[s] = "rs_return"
    /\ scan_results' = [scan_results EXCEPT ![s] = results[s]]
    /\ rs' = [rs EXCEPT ![s] = "returned"]
    /\ pc' = [pc EXCEPT ![s] = "update"]
    /\ UNCHANGED <<chan, events, data, exc, success, outdir, args, results,
                   active_connections, file, faults, cut, call, ret>>

(***************************************************************************)
(* websocket_scan, after run_scan.                                         *)
(***************************************************************************)
\* the update with the collection read before run_scan was awaited (the
\* records up to this scan's own) and rewritten after it: a read and a
\* rewrite with a suspension point between them
UpdateRecordStale(s) ==
    /\ pc[s] = "update"
    /\ LET scans == load_scans(file)
           own == {i \in 1 .. Len(scans) : scans[i].id = ScanId(s)}
           stale == IF own = {} THEN scans
                    ELSE SubSeq(scans, 1, CHOOSE i \in own : \A j \in own : i <= j)
       IN  file' = GoodFile(MarkCompleted(stale, ScanId(s), scan_results[s]))
    /\ pc' = [pc EXCEPT ![s] = "finally"]
    /\ UNCHANGED <<chan, events, data, exc, success, outdir, args, results,
                   scan_results, active_connections, faults, rs, cut, call, ret>>

\* main.py:476-486: one run without an await: the store is read, the
\* record of this scan marked completed, the store rewritten
UpdateRecord(s) ==
    /\ pc[s] = "update"
    /\ \E w \in WriteOutcomes(MarkCompleted(load_scans(file), ScanId(s), scan_results[s])) :
          /\ file' = w.file
          /\ IF w.ok
             THEN /\ pc' = [pc EXCEPT ![s] = "finally"]
                  /\ UNCHANGED <<exc, faults>>
             ELSE /\ pc' = [pc EXCEPT ![s] = "handler"]
                  /\ exc' = [exc EXCEPT ![s] = StoreError]
                  /\ faults' = faults - 1
    /\ UNCHANGED <<chan, events, data, success, outdir, args, results,
                   scan_results, active_connections, rs, cut, call, ret>>

\* main.py:488-498: WebSocketDisconnect is logged; any other exception is
\* logged and sent as an error event, a failure of that send swallowed
Handler(s) ==
    /\ pc[s] = "handler"
    /\ events' = [events EXCEPT ![s] =
                     IF exc[s].cls # "WebSocketDisconnect" /\ chan[s] = "open"
                     THEN Append(@, ErrorEvent(<<exc[s].str>>))
                     ELSE @]
    /\ exc' = [exc EXCEPT ![s] = NoExc]
    /\ pc' = [pc EXCEPT ![s] = "finally"]
    /\ UNCHANGED <<chan, data, success, outdir, args, results, scan_results,
                   active_connections, file, faults, rs, cut, call, ret>>

\* list.remove: the first occurrence is taken out
RECURSIVE Remove(_, _)
Remove(list, x) ==
    IF list = <<>> THEN <<>>
    ELSE IF Head(list) = x THEN Tail(list)
    ELSE <<Head(list)>> \o Remove(Tail(list), x)

\* main.py:499-501
Finally(s) ==
    /\ pc[s] = "finally"
    /\ active_connections' =
          IF \E i \in 1 .. Len(active_connections) : active_connections[i] = s
          THEN Remove(active_connections, s)
          ELSE active_connections
    /\ pc' = [pc EXCEPT ![s] = "done"]
    /\ UNCHANGED <<chan, events, data, exc, success, outdir, args, results,
                   scan_results, file, faults, rs, cut, call, ret>>

(***************************************************************************)
(* The environment.                                                        *)
(***************************************************************************)
\* the client of s closes its connection, at any point of the session
Disconnect(s) ==
    /\ pc[s] \notin {"accept", "done"}
    /\ chan[s] = "open"
    /\ chan' = [chan EXCEPT ![s] = "closed"]
    /\ cut' = [cut EXCEPT ![s] = (pc[s] = "rs_engine")]
    /\ UNCHANGED <<pc, events, data, exc, success, outdir, args, results,
                   scan_results, active_connections, file, faults, rs, call, ret>>

\* SCANS_FILE is removed or damaged from outside the process
CorruptStore ==
    /\ faults > 0
    /\ file # CorruptFile
    /\ file' = CorruptFile
    /\ faults' = faults - 1
    /\ UNCHANGED <<pc, chan, events, data, exc, success, outdir, args, results,
                   scan_results, active_connections, rs, cut, call, ret>>

\* SCANS_FILE can no longer be read or parsed (its permissions changed, a
\* byte of it damaged) while the records are still in it: open or json.load
\* raises at main.py:353-354
DamageStore ==
    /\ faults > 0
    /\ file.readable
    /\ file.scans # <<>>
    /\ file' = [file EXCEPT !.readable = FALSE]
    /\ faults' = faults - 1
    /\ UNCHANGED <<pc, chan, events, data, exc, success, outdir, args, results,
                   scan_results, active_connections, rs, cut, call, ret>>

Next ==
    \E s \in Sess :
          \/ Accept(s)
          \/ Receive(s)
          \/ CreateRecord(s)
          \/ SendStart(s)
          \/ Prepare(s)
          \/ SendInit(s)
          \/ SendRunning(s)
          \/ EngineReturn(s)
          \/ SendDone(s)
          \/ Parse(s)
          \/ SendComplete(s)
          \/ SendFailed(s)
          \/ ExceptHandler(s)
          \/ Return(s)
          \/ UpdateRecord(s)
          \/ Handler(s)
          \/ Finally(s)
          \/ Disconnect(s)

\* the program with a store that works
Spec == Init /\ [][Next]_vars

NextFaults ==
    \/ Next
    \/ CorruptStore
    \/ DamageStore

\* the program with a store that can fail
SpecFaults == InitFaults /\ [][NextFaults]_vars

\* two sessions: two clients connected to /ws/scan at the same time
InitTwo ==
    /\ SessLocalsOf(2)
    /\ file = GoodFile(<<>>)
    /\ faults = 0
    /\ call = NoCall
    /\ ret = <<>>

\* the program serving two concurrent scans, with a store that works
SpecTwo == InitTwo /\ [][Next]_vars

(***************************************************************************)
(* The functions on their own: the specification SpecFn draws a call from  *)
(* bounded sets of arguments and applies the function.                     *)
(***************************************************************************)
\* the pieces plugin names are made of
Pieces == {GARAK \o DOT, PROBES \o DOT, DETECTORS \o DOT, DAN \o DOT \o XNAME,
           PROBES, DOT}

RECURSIVE NamesUpTo(_)
NamesUpTo(n) ==
    IF n = 0 THEN {<<>>}
    ELSE LET shorter == NamesUpTo(n - 1)
         IN  shorter \cup {p \o x : p \in Pieces, x \in shorter}

NormalizeCalls ==
    {[fn |-> "normalize_plugin_name", name |-> n, category |-> c] :
        n \in NamesUpTo(MaxParts), c \in Categories}

LineSeqs(n) == UNION {[1 .. k -> LineTexts] : k \in 0 .. n}

\* the line-delimited report files of a directory, in glob order
JsonlParts ==
    LET firsts == {[name |-> "report.report.jsonl", readable |-> TRUE, lines |-> ls] :
                      ls \in LineSeqs(MaxLines)}
                  \cup {[name |-> "report.report.jsonl", readable |-> FALSE,
                         lines |-> <<GoodLine1>>]}
        seconds == {[name |-> "report.hitlog.jsonl", readable |-> TRUE, lines |-> ls] :
                       ls \in {<<GoodLine2>>, <<BadLine, GoodLine1>>}}
    IN  {<<>>} \cup {<<f>> : f \in firsts}
        \cup {<<f, g>> : f \in firsts, g \in seconds}
        \cup {<<g, f>> : f \in firsts, g \in seconds}

OtherEntry(name) == [name |-> name, readable |-> TRUE, lines |-> <<>>]

\* the other files of a directory
OtherParts ==
    { <<>>,
      <<OtherEntry("garak.log")>>,
      <<OtherEntry("index.html")>>,
      <<OtherEntry("report.report.html")>>,
      <<OtherEntry("report.html"), OtherEntry("report.report.html")>> }

ParseCalls ==
    {[fn |-> "parse_results", output_dir |-> o \o j, scan_id |-> id] :
        j \in JsonlParts, o \in OtherParts, id \in {ScanId(1), ScanId(2)}}

\* a record as the store holds it
SampleRecord(id, st) ==
    [id |-> id, model_name |-> "llama3", probes |-> ProbeNames, detectors |-> <<>>,
     description |-> <<>>, status |-> st, results |-> <<>>]

\* the collections SCANS_FILE is given to load_scans with
SampleScans ==
    { <<>>,
      <<SampleRecord("1", "running")>>,
      <<SampleRecord("1", "completed"), SampleRecord("2", "running")>> }

\* SCANS_FILE as load_scans can find it: readable, or missing (no content),
\* or unreadable or unparsable with its content still there
StoreFiles ==
    {GoodFile(sc) : sc \in SampleScans}
    \cup {[readable |-> FALSE, scans |-> sc] : sc \in SampleScans}

LoadCalls == {[fn |-> "load_scans", file |-> f] : f \in StoreFiles}

\* the plugin names a request can hold
PluginNames ==
    {PROBES \o DOT \o DAN \o DOT \o XNAME,
     GARAK \o DOT \o PROBES \o DOT \o DAN \o DOT \o XNAME,
     DAN \o DOT \o XNAME,
     DETECTORS \o DOT \o DAN \o DOT \o XNAME}

\* the lists of at most n plugin names
PluginLists(n) == UNION {[1 .. k -> PluginNames] : k \in 0 .. n}

\* the requests run_scan builds an argument vector for: detectors is None
\* (<<>>) or a list, the empty one included
ArgsCalls ==
    {[fn |-> "build_args", model_name |-> m, probes |-> p, detectors |-> d,
      scan_id |-> ScanId(1)] :
        m \in {"llama3", "mistral"},
        p \in PluginLists(MaxPlugins),
        d \in {<<>>} \cup {<<l>> : l \in PluginLists(MaxPlugins)}}

\* main.py:199, 205: the normalizer applied to a name; applied once more,
\* it is given its own output
CallNormalize ==
    /\ call.fn = "normalize_plugin_name"
    /\ Len(ret) < 2
    /\ ret' = Append(ret, normalize_plugin_name(
                             IF ret = <<>> THEN call.name ELSE ret[Len(ret)],
                             call.category))
    /\ UNCHANGED <<call, sessVars>>

\* main.py:259
CallParse ==
    /\ call.fn = "parse_results"
    /\ ret = <<>>
    /\ ret' = <<parse_results(call.output_dir, call.scan_id)>>
    /\ UNCHANGED <<call, sessVars>>

\* main.py:350-356, as list_scans (406) and get_scan (413) call it: the
\* file is read, not written
CallLoadScans ==
    /\ call.fn = "load_scans"
    /\ ret = <<>>
    /\ ret' = <<load_scans(file)>>
    /\ UNCHANGED <<call, sessVars>>

\* main.py:196-223
CallBuildArgs ==
    /\ call.fn = "build_args"
    /\ ret = <<>>
    /\ ret' = <<BuildArgs(call.model_name, call.probes, call.detectors, call.scan_id)>>
    /\ UNCHANGED <<call, sessVars>>

InitFn ==
    /\ SessLocals
    /\ faults = 0
    /\ call \in NormalizeCalls \cup ParseCalls \cup LoadCalls \cup ArgsCalls
    /\ file = IF call.fn = "load_scans" THEN call.file ELSE GoodFile(<<>>)
    /\ ret = <<>>

NextFn ==
    \/ CallNormalize
    \/ CallParse
    \/ CallLoadScans
    \/ CallBuildArgs

SpecFn == InitFn /\ [][NextFn]_vars

(***************************************************************************)
(* Vocabulary of the properties.                                           *)
(***************************************************************************)
\* an error event sent by run_scan (main.py:267 or 274), as opposed to the
\* one websocket_scan sends (main.py:493)
RunScanError(e) ==
    /\ e.type = "error"
    /\ e.message[1] \in {ScanFailedMessage[1], "Scan error: "}

\* a terminal event of run_scan
RunScanTerminal(e) == e.type = "complete" \/ RunScanError(e)

\* the positions of the terminal events run_scan sent on the channel of s
Terminals(s) == {i \in 1 .. Len(events[s]) : RunScanTerminal(events[s][i])}

\* the call of run_scan in s is over
RunScanEnded(s) == rs[s] \in {"returned", "raised"}

\* the store holds a record of the scan of s with status st
HasRecord(s, st) ==
    \E i \in 1 .. Len(load_scans(file)) :
        /\ load_scans(file)[i].id = ScanId(s)
        /\ load_scans(file)[i].status = st

\* the progress values of the status events of s, in order
Progress(s) ==
    LET st == SelectSeq(events[s], LAMBDA e : e.type = "status")
    IN  [i \in 1 .. Len(st) |-> st[i].progress]

Milestones == <<0, 10, 20, 100>>

(***************************************************************************)
(* C1.  Every invocation of run_scan emits exactly one terminal event      *)
(* (complete or error), never both and never zero, whatever the engine     *)
(* does and wherever a step, a channel send included, fails.               *)
(***************************************************************************)
\* C1 as claimed: an invocation that is over has emitted exactly one
\* terminal event
C1_ExactlyOneTerminal ==
    \A s \in Sess : RunScanEnded(s) => Cardinality(Terminals(s)) = 1

\* C1 as it holds: run_scan never emits more than one terminal event; an
\* invocation that returns has emitted exactly one; an invocation in which
\* a send failed (the channel is closed, the send of the except clause fails
\* too and run_scan ends by that exception) has emitted none
C1_AtMostOneTerminal ==
    \A s \in Sess :
        /\ Cardinality(Terminals(s)) <= 1
        /\ rs[s] = "returned" => Cardinality(Terminals(s)) = 1
        /\ rs[s] = "raised" => Terminals(s) = {} /\ chan[s] = "closed"

\* a step of run_scan raised, the channel was open, and run_scan returned
\* after its one error event
C1_Witness ==
    \E s \in Sess :
        /\ rs[s] = "returned"
        /\ args[s] = <<>>
        /\ events[s][Len(events[s])] = ErrorEvent(ScanErrorMessage(PrepareError.str))

(***************************************************************************)
(* C2.  If the client leaves while the engine invocation is in flight, the *)
(* engine still runs to its end, the sends that fail afterwards are        *)
(* swallowed, and the record of the scan is still set to completed.        *)
(***************************************************************************)
C2_DisconnectInFlight ==
    \A s \in Sess :
        (pc[s] = "done" /\ cut[s]) =>
            /\ success[s] # <<>>
            /\ rs[s] = "returned"
            /\ HasRecord(s, "completed")

(***************************************************************************)
(* C3.  run_scan never propagates an exception to its caller: it returns   *)
(* a result object or nothing.                                             *)
(***************************************************************************)
C3_NeverRaises == \A s \in Sess : rs[s] # "raised"

(***************************************************************************)
(* C4.  The events of a scan come in the fixed sequence start (0),         *)
(* initializing (10), running (20), terminal: no terminal event without    *)
(* the three status events before it, in that order.                       *)
(***************************************************************************)
\* C4 as claimed
C4_TerminalAfterThree ==
    \A s \in Sess : \A i \in Terminals(s) :
        /\ i >= 4
        /\ \A k \in 1 .. 3 :
              events[s][k].type = "status" /\ events[s][k].progress = Milestones[k]

\* C4 as it holds: the status events are the first events of the channel
\* and carry 0, 10, 20, 100 in that order, none skipped; complete comes
\* only after all four; an error event of run_scan comes after the start
\* event at least, and after nothing but status events (it can follow the
\* start event alone, when a step of 171-223 raises)
C4_StatusOrder ==
    \A s \in Sess : \A i \in 1 .. Len(events[s]) :
        /\ events[s][i].type = "status" =>
              i <= 4 /\ events[s][i].progress = Milestones[i]
        /\ events[s][i].type = "complete" =>
              i = 5 /\ \A k \in 1 .. 4 : events[s][k].type = "status"
        /\ RunScanError(events[s][i]) =>
              i >= 2 /\ \A k \in 1 .. i - 1 : events[s][k].type = "status"

\* the error event right after the start event
C4_Witness ==
    \E s \in Sess :
        /\ Len(events[s]) = 2
        /\ events[s][1].type = "status"
        /\ events[s][1].progress = 0
        /\ RunScanError(events[s][2])

(***************************************************************************)
(* C5.  The progress values of the status events of a scan never decrease  *)
(* and stay within 0..100; when the engine succeeds the last one emitted   *)
(* is 100, emitted before the complete event.                              *)
(***************************************************************************)
ProgressMonotone(s) ==
    /\ \A i \in 1 .. Len(Progress(s)) : Progress(s)[i] \in 0 .. 100
    /\ \A i \in 1 .. Len(Progress(s)) - 1 : Progress(s)[i] <= Progress(s)[i + 1]

\* the event before each complete event is the status event with 100
CompleteAfterHundred(s) ==
    \A i \in 1 .. Len(events[s]) :
        events[s][i].type = "complete" =>
            /\ i > 1
            /\ events[s][i - 1].type = "status"
            /\ events[s][i - 1].progress = 100

\* C5 as claimed
C5_EndsAtHundred ==
    \A s \in Sess :
        /\ ProgressMonotone(s)
        /\ CompleteAfterHundred(s)
        /\ (RunScanEnded(s) /\ success[s] = <<TRUE>>) =>
              Progress(s)[Len(Progress(s))] = 100

\* C5 as it holds: monotone and within 0..100 always; complete is always
\* preceded by the status event with 100; when the engine succeeds and
\* run_scan returns the last progress value is 100 and complete follows it;
\* when the engine succeeds and a send fails the last value is 20 or 100
\* and no complete event is emitted
C5_ProgressMonotone ==
    \A s \in Sess :
        /\ ProgressMonotone(s)
        /\ CompleteAfterHundred(s)
        /\ (rs[s] = "returned" /\ success[s] = <<TRUE>>) =>
              /\ Progress(s)[Len(Progress(s))] = 100
              /\ \E i \in 1 .. Len(events[s]) : events[s][i].type = "complete"
        /\ (rs[s] = "raised" /\ success[s] = <<TRUE>>) =>
              /\ Progress(s)[Len(Progress(s))] \in {20, 100}
              /\ \A i \in 1 .. Len(events[s]) : events[s][i].type # "complete"

\* the engine succeeded and the scan ended with 100, then complete
C5_Witness ==
    \E s \in Sess :
        /\ rs[s] = "returned"
        /\ success[s] = <<TRUE>>
        /\ Progress(s) = Milestones
        /\ events[s][5].type = "complete"

(***************************************************************************)
(* C6.  Record lifecycle: once the request is accepted, before any event   *)
(* of the scan is emitted or the engine invoked, the store holds the       *)
(* record of the scan with status running; after the scan has finished     *)
(* (the engine returned, successfully or not) it holds it with status      *)
(* completed.                                                              *)
(***************************************************************************)
C6_RecordLifecycle ==
    \A s \in Sess :
        /\ pc[s] = "rs_start" => events[s] = <<>> /\ HasRecord(s, "running")
        /\ (pc[s] = "done" /\ success[s] # <<>>) => HasRecord(s, "completed")

(***************************************************************************)
(* C7.  When the engine invocation fails, run_scan emits a terminal error  *)
(* event, no status event with 100 and no complete event, produces no      *)
(* result, and the record is still set to completed, without results.      *)
(***************************************************************************)
C7_EngineFailure ==
    \A s \in Sess :
        (pc[s] = "done" /\ success[s] = <<FALSE>>) =>
            /\ \E i \in 1 .. Len(events[s]) : RunScanError(events[s][i])
            /\ \A i \in 1 .. Len(events[s]) :
                  /\ events[s][i].type # "complete"
                  /\ events[s][i].type = "status" => events[s][i].progress # 100
            /\ results[s] = <<>>
            /\ \E i \in 1 .. Len(load_scans(file)) :
                  /\ load_scans(file)[i].id = ScanId(s)
                  /\ load_scans(file)[i].status = "completed"
                  /\ load_scans(file)[i].results = <<>>

(***************************************************************************)
(* C8.  The normalizer is idempotent: normalize(normalize(x, c), c) =      *)
(* normalize(x, c) for every name x and category c, names in which a       *)
(* prefix form occurs more than once included.                             *)
(***************************************************************************)
C8_Idempotent ==
    (call.fn = "normalize_plugin_name" /\ Len(ret) = 2) => ret[2] = ret[1]

(***************************************************************************)
(* C9.  normalize(name, category) strips "garak.<category>." when the name *)
(* starts with it, otherwise "<category>." when the name starts with it,   *)
(* otherwise returns the name unchanged; for probes, "probes.dan.X",       *)
(* "garak.probes.dan.X" and "dan.X" all give "dan.X", and a prefix of the  *)
(* other category is left in place.                                        *)
(***************************************************************************)
\* name is prefix followed by something
HasPrefix(name, prefix) == \E k \in 0 .. Len(name) : SubSeq(name, 1, k) = prefix

OtherCategory(c) == IF c = PROBES THEN DETECTORS ELSE PROBES

DanX == DAN \o DOT \o XNAME

C9_NormalizeStrips ==
    (call.fn = "normalize_plugin_name" /\ Len(ret) >= 1) =>
        LET name == call.name
            c == call.category
            out == ret[1]
        IN  /\ HasPrefix(name, GARAK \o DOT \o c \o DOT) =>
                  name = GARAK \o DOT \o c \o DOT \o out
            /\ (~HasPrefix(name, GARAK \o DOT \o c \o DOT) /\ HasPrefix(name, c \o DOT)) =>
                  name = c \o DOT \o out
            /\ (~HasPrefix(name, GARAK \o DOT \o c \o DOT) /\ ~HasPrefix(name, c \o DOT)) =>
                  out = name
            /\ (c = PROBES /\ name \in {PROBES \o DOT \o DanX,
                                         GARAK \o DOT \o PROBES \o DOT \o DanX,
                                         DanX}) =>
                  out = DanX
            /\ (HasPrefix(name, OtherCategory(c) \o DOT)
                \/ HasPrefix(name, GARAK \o DOT \o OtherCategory(c) \o DOT)) =>
                  out = name

\* "garak.probes.dan.X" was normalized for probes
C9_Witness ==
    /\ call.fn = "normalize_plugin_name"
    /\ call.category = PROBES
    /\ call.name = GARAK \o DOT \o PROBES \o DOT \o DanX
    /\ Len(ret) >= 1
    /\ ret[1] = DanX

(***************************************************************************)
(* C10.  The result parser skips a line that fails to parse without        *)
(* aborting the file: the details hold every well-formed non-blank line    *)
(* of every report file, those after a malformed line included, in         *)
(* file-then-line order.                                                   *)
(***************************************************************************)
\* the parsed objects of the well-formed non-blank lines of a file
WellFormedData(lines) ==
    LET good == SelectSeq(lines, LAMBDA l : Strip(l) # "" /\ json_loads(l).ok)
    IN  [i \in 1 .. Len(good) |-> json_loads(good[i]).data]

RECURSIVE AllWellFormed(_)
AllWellFormed(files) ==
    IF files = <<>> THEN <<>>
    ELSE (IF Head(files).readable THEN WellFormedData(Head(files).lines) ELSE <<>>)
         \o AllWellFormed(Tail(files))

C10_SkipsMalformedLine ==
    (call.fn = "parse_results" /\ ret # <<>>) =>
        ret[1].details = AllWellFormed(Glob(call.output_dir, TRUE))

(***************************************************************************)
(* C11.  No record is ever deleted from the store by this subsystem: once  *)
(* a record with a given id has been appended, the store still holds a     *)
(* record with that id after any sequence of appends, status updates and   *)
(* store read failures.                                                    *)
(***************************************************************************)
\* the ids of the records the backing collection holds
StoreIds(f) == {f.scans[i].id : i \in 1 .. Len(f.scans)}

\* a step of a session (pc changes) whose rewrite of the store, if any, did
\* not fail (no fault is consumed) leaves every record of the backing
\* collection in it
C11_NeverDeleted ==
    [][(pc' # pc /\ faults' = faults) => StoreIds(file) \subseteq StoreIds(file')]_vars

(***************************************************************************)
(* C12.  On the channel of one scan, across the whole session (request     *)
(* receipt, record creation, run_scan, the final store update), exactly    *)
(* one complete or error event is emitted and it is the last event: no     *)
(* event of any type follows a complete or an error, also when the store   *)
(* update after run_scan fails.                                            *)
(***************************************************************************)
\* the positions of the complete and error events on the channel of s,
\* whoever sent them (run_scan or websocket_scan)
ChannelTerminals(s) ==
    {i \in 1 .. Len(events[s]) : events[s][i].type \in {"complete", "error"}}

\* the claim on the channels the client never left (on those every send
\* succeeds): no event follows a complete or an error, and a session that
\* is over has emitted exactly one of them
C12_OneTerminalLast ==
    \A s \in Sess :
        chan[s] = "open" =>
            /\ \A i \in ChannelTerminals(s) : i = Len(events[s])
            /\ pc[s] = "done" => Cardinality(ChannelTerminals(s)) = 1

(***************************************************************************)
(* C13.  parse_results sets the report path if and only if the output      *)
(* directory holds at least one rendered-report file: then report_path is  *)
(* /api/scans/{scanId}/report for the given scan id and report_html is the *)
(* name of a discovered file; with zero artifacts it still returns a       *)
(* result, with empty details and no report path.                          *)
(***************************************************************************)
\* the positions of the rendered-report files in a directory
RenderedReports(dir) == {i \in 1 .. Len(dir) : MatchesReportHtml(dir[i].name)}

\* the positions of the line-delimited report files in a directory
LineReports(dir) == {i \in 1 .. Len(dir) : MatchesReportJsonl(dir[i].name)}

C13_ReportPath ==
    (call.fn = "parse_results" /\ ret # <<>>) =>
        LET dir == call.output_dir
            r == ret[1]
        IN  /\ r.report_path # <<>> <=> RenderedReports(dir) # {}
            /\ r.report_html # <<>> <=> RenderedReports(dir) # {}
            /\ RenderedReports(dir) # {} =>
                  /\ r.report_path = <<<<"/api/scans/", call.scan_id, "/report">>>>
                  /\ \E i \in RenderedReports(dir) : r.report_html = <<dir[i].name>>
            /\ (RenderedReports(dir) = {} /\ LineReports(dir) = {}) =>
                  r.details = <<>> /\ r.report_path = <<>>

\* a directory with two rendered reports and a report file was parsed for
\* the second scan id
C13_Witness ==
    /\ call.fn = "parse_results"
    /\ ret # <<>>
    /\ call.scan_id = ScanId(2)
    /\ Cardinality(RenderedReports(call.output_dir)) = 2
    /\ LineReports(call.output_dir) # {}
    /\ ret[1].report_html = <<"report.html">>
    /\ ret[1].report_path = <<<<"/api/scans/", "2", "/report">>>>

(***************************************************************************)
(* C14.  If the backing collection of the store is missing, unreadable or  *)
(* corrupt, load_scans returns an empty sequence and raises nothing, and   *)
(* the read leaves the backing collection unchanged.                       *)
(***************************************************************************)
\* after the call: the file is as it was given; a file that cannot be read
\* gave the empty sequence, whatever it holds; a file that can be read gave
\* the records it holds
C14_LoadScansResilient ==
    (call.fn = "load_scans" /\ ret # <<>>) =>
        /\ file = call.file
        /\ ~call.file.readable => ret[1] = <<>>
        /\ call.file.readable => ret[1] = call.file.scans

\* an unreadable file that still holds two records was loaded
C14_Witness ==
    /\ call.fn = "load_scans"
    /\ ~call.file.readable
    /\ Len(call.file.scans) = 2
    /\ ret = <<<<>>>>

(***************************************************************************)
(* C15.  With two scans running concurrently in the one request-handling   *)
(* process, their store mutations interleave as separate full-collection   *)
(* reads and rewrites, so one scan's update can be lost: after both scans  *)
(* have finished, some record is missing from the store or still running.  *)
(***************************************************************************)
\* the store mutation of s after run_scan (main.py:476-486) has been made
Updated(s) == rs[s] = "returned" /\ pc[s] \in {"finally", "done"}

\* the record of s is missing from the store or still has status running
Lost(s) == ~HasRecord(s, "completed")

\* C15 as claimed, for the outcome it describes: the two scans have
\* finished, each having made its update, and an update is lost
C15_LostUpdate ==
    (\A s \in Sess : pc[s] = "done" /\ Updated(s)) => \E s \in Sess : Lost(s)

\* C15 as it holds: a mutation is one read-modify-write without a
\* suspension point, so the mutations of the two scans are serialised and
\* none is lost: a record that was appended is in the store in every later
\* state, and once a scan has made its update its record is completed in
\* every later state, whatever the other scan does meanwhile
C15_NoLostUpdate ==
    \A s \in Sess :
        /\ rs[s] # "none" => (HasRecord(s, "running") \/ HasRecord(s, "completed"))
        /\ Updated(s) => ~Lost(s)

\* the two updates raced: scan 1 has just made its update while the update
\* of scan 2, whose record was appended first, is still to come
C15_Witness ==
    /\ pc[1] = "finally" /\ Updated(1)
    /\ pc[2] = "update"
    /\ load_scans(file)[1].id = ScanId(2)
    /\ HasRecord(1, "completed")
    /\ HasRecord(2, "running")

(***************************************************************************)
(* C16.  The status of a record is running or completed; a record is       *)
(* written with status running once, at creation, and is mutated exactly   *)
(* once more, to completed; a completed record never returns to running    *)
(* and its results never change afterwards, whatever other scans do to the *)
(* store.                                                                  *)
(***************************************************************************)
\* the records of the scan of s in a store file (none, or one)
RecordsOf(f, s) == SelectSeq(load_scans(f), LAMBDA r : r.id = ScanId(s))

\* in every step and for every scan: a record appears with status running
\* and without results; a record stays; the only change a record undergoes
\* is the one from running to completed (so a completed record, results
\* included, is never changed again); and when the session of a scan whose
\* record was created ends, that change has been made
C16_Lifecycle ==
    [][\A s \in Sess :
         LET before == RecordsOf(file, s)
             after == RecordsOf(file', s)
         IN  /\ Len(after) <= 1
             /\ after # <<>> => after[1].status \in {"running", "completed"}
             /\ (before = <<>> /\ after # <<>>) =>
                   after[1].status = "running" /\ after[1].results = <<>>
             /\ before # <<>> => after # <<>>
             /\ (before # <<>> /\ after # before) =>
                   before[1].status = "running" /\ after[1].status = "completed"
             /\ (pc'[s] = "done" /\ rs'[s] # "none") =>
                   after # <<>> /\ after[1].status = "completed"]_vars

(***************************************************************************)
(* C17.  The engine invocation is dispatched to a worker, so a scan in     *)
(* flight never blocks other sessions: while the engine invocation of one  *)
(* scan has started and not returned, another channel can be accepted, its *)
(* request received, its record created with status running and its own    *)
(* events emitted, and two engine invocations can be in flight at once.    *)
(***************************************************************************)
\* the next step of the code of session t, whichever it is
Proceed(t) ==
    \/ Accept(t)
    \/ Receive(t)
    \/ CreateRecord(t)
    \/ SendStart(t)
    \/ Prepare(t)
    \/ SendInit(t)
    \/ SendRunning(t)
    \/ EngineReturn(t)
    \/ SendDone(t)
    \/ Parse(t)
    \/ SendComplete(t)
    \/ SendFailed(t)
    \/ ExceptHandler(t)
    \/ Return(t)
    \/ UpdateRecord(t)
    \/ Handler(t)
    \/ Finally(t)

\* the engine invocation of s has started and not returned
InFlight(s) == pc[s] = "rs_engine"

\* while the engine of s is in flight, every other session that is not
\* over can take its next step, wherever it stands; and a scan whose
\* engine is in flight has its record in the store with status running and
\* has emitted its own three status events, whatever the other scan did
C17_NeverBlocks ==
    \A s \in Sess :
        InFlight(s) =>
            /\ \A t \in Sess \ {s} : pc[t] # "done" => ENABLED Proceed(t)
            /\ HasRecord(s, "running")
            /\ Progress(s) = <<0, 10, 20>>

\* two engine invocations in flight at the same time, the second scan
\* accepted after the first
C17_Witness ==
    /\ InFlight(1)
    /\ InFlight(2)
    /\ active_connections = <<1, 2>>
    /\ HasRecord(1, "running")
    /\ HasRecord(2, "running")
    /\ Len(events[2]) = 3

(***************************************************************************)
(* C18.  The argument vector run_scan builds holds the fixed model type,   *)
(* the model name, one probe flag per requested probe in request order     *)
(* with its normalized name, and the output prefix; it holds one detector  *)
(* flag per requested detector in request order when detectors are given,  *)
(* and no detector flag when detectors are absent or an empty list.        *)
(***************************************************************************)
\* the detectors of a request as a list: none when the key is absent
RequestedDetectors(d) == IF d = <<>> THEN <<>> ELSE d[1]

C18_ArgumentVector ==
    (call.fn = "build_args" /\ ret # <<>>) =>
        LET a == ret[1]
            np == Len(call.probes)
            dets == RequestedDetectors(call.detectors)
            nd == Len(dets)
        IN  /\ Len(a) = 4 + 2 * np + 2 * nd + 2
            /\ a[1] = <<"--model_type">> /\ a[2] = <<"ollama">>
            /\ a[3] = <<"--model_name">> /\ a[4] = <<call.model_name>>
            /\ \A i \in 1 .. np :
                  /\ a[4 + 2 * i - 1] = <<"--probes">>
                  /\ a[4 + 2 * i] = normalize_plugin_name(call.probes[i], PROBES)
            /\ \A i \in 1 .. nd :
                  /\ a[4 + 2 * np + 2 * i - 1] = <<"--detectors">>
                  /\ a[4 + 2 * np + 2 * i] = normalize_plugin_name(dets[i], DETECTORS)
            /\ a[Len(a) - 1] = <<"--report_prefix">>
            /\ a[Len(a)] = <<"/backend/data/", call.scan_id, "/report">>
            /\ Cardinality({i \in 1 .. Len(a) : a[i] = <<"--probes">>}) = np
            /\ Cardinality({i \in 1 .. Len(a) : a[i] = <<"--detectors">>}) = nd

\* a vector was built for two probes and one detector, all of them given
\* with a prefix
C18_Witness ==
    /\ call.fn = "build_args"
    /\ ret # <<>>
    /\ call.probes = <<PROBES \o DOT \o DanX, GARAK \o DOT \o PROBES \o DOT \o DanX>>
    /\ call.detectors = <<<<DETECTORS \o DOT \o DanX>>>>
    /\ Len(ret[1]) = 12
    /\ ret[1][6] = DanX /\ ret[1][8] = DanX /\ ret[1][10] = DanX

(***************************************************************************)
(* C19.  A scan record has results attached only if a complete event       *)
(* carrying those same results was emitted on the channel of that scan:    *)
(* run_scan returns a non-empty result only after it has emitted complete, *)
(* and never after it has emitted error.                                   *)
(***************************************************************************)
\* a complete event with the id of the scan of s and the results res was
\* emitted on the channel of s
EmittedComplete(s, res) ==
    \E i \in 1 .. Len(events[s]) :
        /\ events[s][i].type = "complete"
        /\ events[s][i].scan_id = ScanId(s)
        /\ events[s][i].results = res

\* run_scan emitted an error event on the channel of s
EmittedError(s) == \E i \in 1 .. Len(events[s]) : RunScanError(events[s][i])

C19_ResultsOnlyAfterComplete ==
    \A s \in Sess :
        /\ (rs[s] = "returned" /\ scan_results[s] # <<>>) =>
              EmittedComplete(s, scan_results[s][1]) /\ ~EmittedError(s)
        /\ \A i \in 1 .. Len(load_scans(file)) :
              (load_scans(file)[i].id = ScanId(s) /\ load_scans(file)[i].results # <<>>) =>
                  EmittedComplete(s, load_scans(file)[i].results[1])

\* a record holds the results of two report lines and a rendered report,
\* the ones the complete event carried
C19_Witness ==
    \E s \in Sess : \E i \in 1 .. Len(load_scans(file)) :
        /\ load_scans(file)[i].id = ScanId(s)
        /\ load_scans(file)[i].status = "completed"
        /\ load_scans(file)[i].results # <<>>
        /\ Len(load_scans(file)[i].results[1].details) = 2
        /\ load_scans(file)[i].results[1].report_path # <<>>
        /\ events[s][Len(events[s])] =
              CompleteEvent(ScanId(s), load_scans(file)[i].results[1])

(***************************************************************************)
(* C20.  A scan request that lacks a required field (model_name or probes) *)
(* leaves the store unchanged, never invokes the engine and produces       *)
(* exactly one error event and no status or complete event; the connection *)
(* is removed from the active connections when the session ends, as on     *)
(* every other exit path.                                                  *)
(***************************************************************************)
\* the request received in s lacks model_name or probes
LacksField(s) ==
    /\ data[s] \in Requests
    /\ data[s].model_name = <<>> \/ data[s].probes = <<>>

\* str(KeyError(key)) for the field the request of s lacks
MissingKey(s) == IF data[s].model_name = <<>> THEN "'model_name'" ELSE "'probes'"

\* s is in the list of active connections
Active(s) == \E i \in 1 .. Len(active_connections) : active_connections[i] = s

\* no record of the scan of s was created, and its engine never invoked
NothingStarted(s) ==
    /\ \A i \in 1 .. Len(load_scans(file)) : load_scans(file)[i].id # ScanId(s)
    /\ rs[s] = "none"
    /\ args[s] = <<>>
    /\ success[s] = <<>>

\* C20 as claimed
C20_ExactlyOneError ==
    \A s \in Sess :
        /\ pc[s] = "done" => ~Active(s)
        /\ LacksField(s) =>
              /\ NothingStarted(s)
              /\ pc[s] = "done" => events[s] = <<ErrorEvent(<<MissingKey(s)>>)>>

\* C20 as it holds: no record, no engine invocation, no status or complete
\* event, and the connection removed at the end of every session; the one
\* error event is emitted when the channel is still open at that moment,
\* and none is when the client has already left (the send fails and the
\* failure is swallowed, main.py:497-498)
C20_AtMostOneError ==
    \A s \in Sess :
        /\ pc[s] = "done" => ~Active(s)
        /\ LacksField(s) =>
              /\ NothingStarted(s)
              /\ events[s] \in {<<>>, <<ErrorEvent(<<MissingKey(s)>>)>>}
              /\ (pc[s] = "done" /\ chan[s] = "open") =>
                    events[s] = <<ErrorEvent(<<MissingKey(s)>>)>>

\* a request without probes was answered by the one error event and the
\* session is over
C20_Witness ==
    \E s \in Sess :
        /\ LacksField(s)
        /\ data[s].probes = <<>>
        /\ pc[s] = "done"
        /\ events[s] = <<ErrorEvent(<<"'probes'">>)>>
        /\ active_connections = <<>>
        /\ file = GoodFile(<<>>)

====
